---- MODULE Spec2Model ----
(***************************************************************************)
(* Model of src/util/calculateImpact.ts: the energy and carbon estimate of *)
(* loading and of using a page.                                            *)
(*                                                                         *)
(* Numbers.  The program computes with JavaScript numbers.  The model      *)
(* computes the same expressions, in the same order, on exact decimal      *)
(* fixed-point values: a Num is a natural number of units of 1/UNIT, kept  *)
(* as a little-endian sequence of limbs in base Base (TLC's integers are   *)
(* 32 bits wide and the quantities are not).  The literals of the source   *)
(* and the scalar inputs are small rationals Q(n, d).  UNIT is chosen such *)
(* that every product and quotient the program forms is a whole number of  *)
(* units, so that MulQ and DivQ are exact; floating-point rounding is the  *)
(* one thing about the numbers that is not modelled.                       *)
(***************************************************************************)
EXTENDS Integers, Sequences, FiniteSets, TLC

\* ------------------------------------------------------------------ bounds
MaxDuration == 2
MaxUserAmount == 2
MaxVolumeUnits == 1

\* ------------------------------------------------- natural numbers (limbs)
Base == 100 * 100
SmallLimit == 200 * 1000

Front(x) == SubSeq(x, 1, Len(x) - 1)

RECURSIVE Trim(_)
Trim(x) ==
  IF x = <<>> THEN x
  ELSE IF x[Len(x)] = 0 THEN Trim(Front(x)) ELSE x

RECURSIVE FromInt(_)
FromInt(n) == IF n = 0 THEN <<>> ELSE <<n % Base>> \o FromInt(n \div Base)

RECURSIVE AddC(_, _, _)
AddC(x, y, c) ==
  IF x = <<>> /\ y = <<>> THEN FromInt(c)
  ELSE LET a == IF x = <<>> THEN 0 ELSE Head(x)
           b == IF y = <<>> THEN 0 ELSE Head(y)
           s == a + b + c
       IN  <<s % Base>> \o AddC(IF x = <<>> THEN x ELSE Tail(x),
                                IF y = <<>> THEN y ELSE Tail(y),
                                s \div Base)

BigAdd(x, y) == AddC(x, y, 0)

RECURSIVE MulC(_, _, _)
MulC(x, m, c) ==
  IF x = <<>> THEN FromInt(c)
  ELSE LET p == Head(x) * m + c
       IN  <<p % Base>> \o MulC(Tail(x), m, p \div Base)

\* x * m for one limb m
BigMulLimb(x, m) == IF m = 0 THEN <<>> ELSE MulC(x, m, 0)

ShiftUp(x) == IF x = <<>> THEN x ELSE <<0>> \o x

RECURSIVE BigMul(_, _)
BigMul(x, y) ==
  IF x = <<>> \/ y = <<>> THEN <<>>
  ELSE BigAdd(BigMulLimb(x, Head(y)), ShiftUp(BigMul(x, Tail(y))))

RECURSIVE DivC(_, _, _)
DivC(x, d, r) ==
  IF x = <<>> THEN <<>>
  ELSE LET cur == r * Base + x[Len(x)]
       IN  DivC(Front(x), d, cur % d) \o <<cur \div d>>

\* floor(x / d) for 0 < d < SmallLimit
BigDivSmall(x, d) == Trim(DivC(x, d, 0))

\* floor(x / d) for the divisors of the model: d < SmallLimit, or a multiple of
\* Base times such a number
RECURSIVE BigDiv(_, _)
BigDiv(x, d) ==
  IF d < SmallLimit THEN BigDivSmall(x, d)
  ELSE IF d % Base = 0
       THEN BigDiv(IF x = <<>> THEN x ELSE Tail(x), d \div Base)
       ELSE BigDiv(BigDivSmall(x, 10), d \div 10)

RECURSIVE BigLe(_, _)
BigLe(x, y) ==
  IF Len(x) # Len(y) THEN Len(x) < Len(y)
  ELSE IF x = <<>> THEN TRUE
       ELSE IF x[Len(x)] # y[Len(y)] THEN x[Len(x)] < y[Len(y)]
            ELSE BigLe(Front(x), Front(y))

\* ------------------------------------------- rationals (literals, scalars)
RECURSIVE GCD(_, _)
GCD(a, b) == IF b = 0 THEN a ELSE GCD(b, a % b)

Q(n, d) == LET g == GCD(n, d) IN [n |-> n \div g, d |-> d \div g]

QMul(a, b) ==
  LET g1 == GCD(a.n, b.d)
      g2 == GCD(b.n, a.d)
  IN  [n |-> (a.n \div g1) * (b.n \div g2), d |-> (a.d \div g2) * (b.d \div g1)]

QDiv(a, b) == QMul(a, [n |-> b.d, d |-> b.n])

\* ---------------------------------------------------- fixed-point values
\* 1/UNIT divides every value the program forms: 8 (bits to bytes), 10^7 (the
\* per-byte coefficients), 10 (the shares), 3600 (J to Wh), 100 (CARBON_COEFF),
\* 1000 and 20864/100000 (the driving comparison), 40 (the light bulb).
UNIT == BigMul(BigMul(FromInt(800000000), FromInt(3600)), FromInt(65200000))

Zero == <<>>
ToNum(q) == BigDiv(BigMul(UNIT, FromInt(q.n)), q.d)
Add(x, y) == BigAdd(x, y)
MulQ(x, q) == BigDiv(BigMul(x, FromInt(q.n)), q.d)
DivQ(x, q) == BigDiv(BigMul(x, FromInt(q.d)), q.n)
Le(x, y) == BigLe(x, y)

\* ------------------------------------------------------------- the types
DeviceTypes == {"Phone", "Tablet", "PC", "Laptop"}
ContentTypes == {"Text", "Video", "Audio"}
\* "Other" stands for every site the switch of getDataVolume does not name
Sites == {"Yle", "Areena", "HS", "Other"}
allConnectivityMethods == <<"3G", "4G", "5G", "WIFI">>
undefined == "undefined"

\* ---------------------------------------------------------- the constants
DEVICE_POWER ==
  [Phone |-> Q(1, 1), Tablet |-> Q(3, 1), PC |-> Q(115, 1), Laptop |-> Q(32, 1)]
DATA_VOLUME_TEXT == Q(8000000, 1)
DATA_VOLUME_VIDEO_PER_S_DEFAULT == QDiv(Q(4000000, 1), Q(8, 1))
DATA_VOLUME_VIDEO_PER_S_SANOMA == QDiv(Q(5312785, 1), Q(8, 1))
DATA_VOLUME_VIDEO_PER_S_YLE == QDiv(Q(3670450, 1), Q(8, 1))
DATA_VOLUME_AUDIO_PER_S == QDiv(Q(128000, 1), Q(8, 1))
DATA_VOLUME_VIDEO_OPTIMIZED_PER_S == QDiv(Q(1100000, 1), Q(8, 1))
E_ORIGIN_PER_REQUEST == Q(306, 1)
E_SERVER_PER_BYTE == Q(69, 10000000)
E_NETWORK_COEFF == Q(45, 1000000)
WIFI_ENERGY_PER_S == Q(10, 1)
E_ACC_NET_3G == Q(455, 10000000)
E_ACC_NET_4G == QDiv(QMul(Q(117, 1000), Q(3600000, 1)), Q(1000000000, 1))
E_ACC_NET_5G == QDiv(QMul(Q(501, 1000), Q(3600000, 1)), Q(1000000000, 1))
CARBON_COEFF == Q(11, 100)
POWER_LIGHTBULB == Q(40, 1)
CAR_EMISSIONS == Q(20864, 100000)
VIDEO_DEVICE_FACTOR == Q(115, 100)
J_PER_WH == Q(3600, 1)
G_PER_KG == Q(1000, 1)
PAGE_LOAD_SECONDS == Q(5, 1)

DATA_SHARE_MAP ==
  [mobile   |-> [3G |-> Q(0, 1), 4G |-> Q(4, 10), 5G |-> Q(3, 10), WIFI |-> Q(3, 10)],
   computer |-> [3G |-> Q(0, 1), 4G |-> Q(3, 10), 5G |-> Q(1, 10), WIFI |-> Q(6, 10)]]

\* ---------------------------------------------------------- the functions
\* mutant: 360 for 3600
getEnergyAndCarbon_div360(energyInJoules) ==
  LET totalEnergyConsumptionWh == DivQ(energyInJoules, Q(360, 1))
      carbonGrams == MulQ(totalEnergyConsumptionWh, CARBON_COEFF)
  IN  [totalEnergyConsumptionWh |-> totalEnergyConsumptionWh,
       carbonGrams |-> carbonGrams]

\* mutant: the carbon taken from the joules, not from the watt-hours
getEnergyAndCarbon_carbonOfJoules(energyInJoules) ==
  LET totalEnergyConsumptionWh == DivQ(energyInJoules, J_PER_WH)
      carbonGrams == MulQ(energyInJoules, CARBON_COEFF)
  IN  [totalEnergyConsumptionWh |-> totalEnergyConsumptionWh,
       carbonGrams |-> carbonGrams]

getEnergyAndCarbon(energyInJoules) ==
  LET totalEnergyConsumptionWh == DivQ(energyInJoules, J_PER_WH)
      carbonGrams == MulQ(totalEnergyConsumptionWh, CARBON_COEFF)
  IN  [totalEnergyConsumptionWh |-> totalEnergyConsumptionWh,
       carbonGrams |-> carbonGrams]

\* mutant: the video factor applied to everything but text
getDeviceEnergyConsumption_notText(deviceType, contentType) ==
  IF contentType # "Text"
  THEN QMul(DEVICE_POWER[deviceType], VIDEO_DEVICE_FACTOR)
  ELSE DEVICE_POWER[deviceType]

getDeviceEnergyConsumption(deviceType, contentType) ==
  IF contentType = "Video"
  THEN QMul(DEVICE_POWER[deviceType], VIDEO_DEVICE_FACTOR)
  ELSE DEVICE_POWER[deviceType]

\* the switch on the site in getDataVolume
videoBitRate(site) ==
  IF site \in {"Areena", "Yle"} THEN DATA_VOLUME_VIDEO_PER_S_YLE
  ELSE IF site = "HS" THEN DATA_VOLUME_VIDEO_PER_S_SANOMA
       ELSE DATA_VOLUME_VIDEO_PER_S_DEFAULT

\* mutant: the branches of the optimizeVideo conditional swapped
getDataVolume_swapped(contentType, durationSecs, optimizeVideo, site) ==
  IF contentType = "Audio"
  THEN ToNum(QMul(Q(durationSecs, 1), DATA_VOLUME_AUDIO_PER_S))
  ELSE IF contentType = "Video"
       THEN LET bitRate == videoBitRate(site)
            IN  ToNum(QMul(Q(durationSecs, 1),
                           IF optimizeVideo
                           THEN bitRate
                           ELSE DATA_VOLUME_VIDEO_OPTIMIZED_PER_S))
       ELSE ToNum(DATA_VOLUME_TEXT)

\* mutant: a duration of 0 taken as missing, the text volume its default
getDataVolume_zeroIsMissing(contentType, durationSecs, optimizeVideo, site) ==
  IF durationSecs = 0 THEN ToNum(DATA_VOLUME_TEXT)
  ELSE IF contentType = "Audio"
  THEN ToNum(QMul(Q(durationSecs, 1), DATA_VOLUME_AUDIO_PER_S))
  ELSE IF contentType = "Video"
       THEN LET bitRate == videoBitRate(site)
            IN  ToNum(QMul(Q(durationSecs, 1),
                           IF optimizeVideo
                           THEN DATA_VOLUME_VIDEO_OPTIMIZED_PER_S
                           ELSE bitRate))
       ELSE ToNum(DATA_VOLUME_TEXT)

getDataVolume(contentType, durationSecs, optimizeVideo, site) ==
  IF contentType = "Audio"
  THEN ToNum(QMul(Q(durationSecs, 1), DATA_VOLUME_AUDIO_PER_S))
  ELSE IF contentType = "Video"
       THEN LET bitRate == videoBitRate(site)
            IN  ToNum(QMul(Q(durationSecs, 1),
                           IF optimizeVideo
                           THEN DATA_VOLUME_VIDEO_OPTIMIZED_PER_S
                           ELSE bitRate))
       ELSE ToNum(DATA_VOLUME_TEXT)

\* mutant: no case for WIFI, which falls to the default
getDataTransferEnergyConsumption_noWifi(connectivityMethod, dataVolume, pageLoads, durationSecs) ==
  CASE connectivityMethod = "3G" ->
         MulQ(MulQ(dataVolume, E_ACC_NET_3G), Q(pageLoads, 1))
    [] connectivityMethod = "4G" ->
         MulQ(MulQ(dataVolume, E_ACC_NET_4G), Q(pageLoads, 1))
    [] connectivityMethod = "5G" ->
         MulQ(MulQ(dataVolume, E_ACC_NET_5G), Q(pageLoads, 1))
    [] OTHER -> Zero

getDataTransferEnergyConsumption(connectivityMethod, dataVolume, pageLoads, durationSecs) ==
  CASE connectivityMethod = "3G" ->
         MulQ(MulQ(dataVolume, E_ACC_NET_3G), Q(pageLoads, 1))
    [] connectivityMethod = "4G" ->
         MulQ(MulQ(dataVolume, E_ACC_NET_4G), Q(pageLoads, 1))
    [] connectivityMethod = "5G" ->
         MulQ(MulQ(dataVolume, E_ACC_NET_5G), Q(pageLoads, 1))
    [] connectivityMethod = "WIFI" ->
         ToNum(QMul(WIFI_ENERGY_PER_S, Q(durationSecs, 1)))
    [] OTHER -> Zero

\* mutant: the costs of the methods summed without their shares
formulateDataTransferEnergyConsumptionSum_unweighted(deviceType, dataVolume, pageLoads, durationInSeconds) ==
  LET RECURSIVE reduce(_, _)
      reduce(acc, i) ==
        IF i > Len(allConnectivityMethods) THEN acc
        ELSE LET method == allConnectivityMethods[i]
             IN  reduce(Add(acc,
                            getDataTransferEnergyConsumption(
                              method, dataVolume, pageLoads, durationInSeconds)),
                        i + 1)
  IN  reduce(Zero, 1)

formulateDataTransferEnergyConsumptionSum(deviceType, dataVolume, pageLoads, durationInSeconds) ==
  LET device == IF deviceType = "Phone" THEN "mobile" ELSE "computer"
      RECURSIVE reduce(_, _)
      reduce(acc, i) ==
        IF i > Len(allConnectivityMethods) THEN acc
        ELSE LET method == allConnectivityMethods[i]
             IN  reduce(Add(acc,
                            MulQ(getDataTransferEnergyConsumption(
                                   method, dataVolume, pageLoads,
                                   durationInSeconds),
                                 DATA_SHARE_MAP[device][method])),
                        i + 1)
  IN  reduce(Zero, 1)

calculateComparisonValues(carbonGrams, eTotalJoule) ==
  LET drivingKMPetrolCar == DivQ(DivQ(carbonGrams, G_PER_KG), CAR_EMISSIONS)
      lightBulbDurationSeconds == DivQ(eTotalJoule, POWER_LIGHTBULB)
  IN  [drivingKMPetrolCar |-> drivingKMPetrolCar,
       lightBulbDurationSeconds |-> lightBulbDurationSeconds]

\* an optional argument is <<>> (left out) or <<value>>
OrDefault(optional, default) ==
  IF optional = <<>> THEN default ELSE optional[1]

\* mutant: the page loads default to 0
calculateServerEnergyConsumption_noLoads(dataVolume, pageLoads) ==
  MulQ(Add(ToNum(E_ORIGIN_PER_REQUEST), MulQ(dataVolume, E_SERVER_PER_BYTE)),
       Q(OrDefault(pageLoads, 0), 1))

calculateServerEnergyConsumption(dataVolume, pageLoads) ==
  MulQ(Add(ToNum(E_ORIGIN_PER_REQUEST), MulQ(dataVolume, E_SERVER_PER_BYTE)),
       Q(OrDefault(pageLoads, 1), 1))

calculateNetworkEnergyConsumption(dataVolume, pageLoads) ==
  MulQ(MulQ(dataVolume, E_NETWORK_COEFF), Q(OrDefault(pageLoads, 1), 1))

\* the scaling helper of util/calculationUtils: every numeric leaf times the
\* multiplier, the structure kept
multiplyEnergyAndCarbon(e, multiplier) ==
  [totalEnergyConsumptionWh |-> MulQ(e.totalEnergyConsumptionWh, Q(multiplier, 1)),
   carbonGrams |-> MulQ(e.carbonGrams, Q(multiplier, 1))]

multiplyCalculation(c, multiplier) ==
  [total |-> multiplyEnergyAndCarbon(c.total, multiplier),
   comparisonValues |->
     [drivingKMPetrolCar |->
        MulQ(c.comparisonValues.drivingKMPetrolCar, Q(multiplier, 1)),
      lightBulbDurationSeconds |->
        MulQ(c.comparisonValues.lightBulbDurationSeconds, Q(multiplier, 1))],
   serverEnergyConsumption |->
     multiplyEnergyAndCarbon(c.serverEnergyConsumption, multiplier),
   networkEnergyConsumption |->
     multiplyEnergyAndCarbon(c.networkEnergyConsumption, multiplier),
   dataTransferEnergyConsumption |->
     multiplyEnergyAndCarbon(c.dataTransferEnergyConsumption, multiplier),
   energyOfUse |-> multiplyEnergyAndCarbon(c.energyOfUse, multiplier)]

\* the Calculation both entry points build from their local values, before
\* it is scaled
BuildCalculation(l) ==
  LET totalEnergyAndCarbon == getEnergyAndCarbon(l.eTotalJoule)
      comparisonValues ==
        calculateComparisonValues(totalEnergyAndCarbon.carbonGrams, l.eTotalJoule)
  IN  [total |-> getEnergyAndCarbon(l.eTotalJoule),
       comparisonValues |-> comparisonValues,
       serverEnergyConsumption |-> getEnergyAndCarbon(l.serverEnergyConsumption),
       networkEnergyConsumption |-> getEnergyAndCarbon(l.networkEnergyConsumption),
       dataTransferEnergyConsumption |->
         getEnergyAndCarbon(l.dataTransferEnergyConsumption),
       energyOfUse |-> getEnergyAndCarbon(l.energyOfUse)]

\* the local values of calculatePageLoadImpact
PageLoadLocals(params) ==
  LET deviceEnergyConsumption ==
        getDeviceEnergyConsumption(params.deviceType, undefined)
      durationInSeconds == PAGE_LOAD_SECONDS
      dataVolume == ToNum(Q(params.dataVolume, 1))
      serverEnergyConsumption == calculateServerEnergyConsumption(dataVolume, <<>>)
      networkEnergyConsumption == calculateNetworkEnergyConsumption(dataVolume, <<>>)
      dataTransferEnergyConsumption ==
        formulateDataTransferEnergyConsumptionSum(
          params.deviceType, dataVolume, 1, durationInSeconds.n)
      energyOfUse == ToNum(QMul(deviceEnergyConsumption, durationInSeconds))
      eTotalJoule ==
        Add(Add(Add(serverEnergyConsumption, networkEnergyConsumption),
                dataTransferEnergyConsumption),
            energyOfUse)
  IN  [dataVolume |-> dataVolume,
       durationInSeconds |-> durationInSeconds.n,
       serverEnergyConsumption |-> serverEnergyConsumption,
       networkEnergyConsumption |-> networkEnergyConsumption,
       dataTransferEnergyConsumption |-> dataTransferEnergyConsumption,
       energyOfUse |-> energyOfUse,
       eTotalJoule |-> eTotalJoule]

\* mutant: the Calculation returned without the scaling
calculatePageLoadImpact_unscaled(params) ==
  BuildCalculation(PageLoadLocals(params))

calculatePageLoadImpact(params) ==
  multiplyCalculation(BuildCalculation(PageLoadLocals(params)), params.userAmount)

\* the data volume of calculatePageUseImpact
PageUseDataVolume(params) ==
  IF params.contentType # "Text"
  THEN getDataVolume(params.contentType, params.durationInSeconds,
                     params.optimizeVideo, params.site)
  ELSE Zero

\* mutant: the server charged for text too
PageUseServerEnergy_always(params, dataVolume) ==
  calculateServerEnergyConsumption(dataVolume, <<>>)

\* the server energy of calculatePageUseImpact
PageUseServerEnergy(params, dataVolume) ==
  IF params.contentType # "Text"
  THEN calculateServerEnergyConsumption(dataVolume, <<>>)
  ELSE Zero

\* the local values of calculatePageUseImpact
PageUseLocals(params) ==
  LET deviceEnergyConsumption ==
        getDeviceEnergyConsumption(params.deviceType, params.contentType)
      dataVolume == PageUseDataVolume(params)
      serverEnergyConsumption == PageUseServerEnergy(params, dataVolume)
      networkEnergyConsumption == calculateNetworkEnergyConsumption(dataVolume, <<>>)
      dataTransferEnergyConsumption ==
        formulateDataTransferEnergyConsumptionSum(
          params.deviceType, dataVolume, 1, params.durationInSeconds)
      energyOfUse ==
        ToNum(QMul(deviceEnergyConsumption, Q(params.durationInSeconds, 1)))
      eTotalJoule ==
        Add(Add(Add(serverEnergyConsumption, networkEnergyConsumption),
                dataTransferEnergyConsumption),
            energyOfUse)
  IN  [dataVolume |-> dataVolume,
       durationInSeconds |-> params.durationInSeconds,
       serverEnergyConsumption |-> serverEnergyConsumption,
       networkEnergyConsumption |-> networkEnergyConsumption,
       dataTransferEnergyConsumption |-> dataTransferEnergyConsumption,
       energyOfUse |-> energyOfUse,
       eTotalJoule |-> eTotalJoule]

calculatePageUseImpact(params) ==
  multiplyCalculation(BuildCalculation(PageUseLocals(params)), params.userAmount)

\* ------------------------------------------------------------- the state
VARIABLES input, pc, locals, result
vars == <<input, pc, locals, result>>

Durations == (0 .. MaxDuration) \cup {10, 60}
UserAmounts == 1 .. MaxUserAmount
DataVolumes == {i * DATA_VOLUME_TEXT.n : i \in 0 .. MaxVolumeUnits}

Params ==
  [deviceType : DeviceTypes, contentType : ContentTypes, site : Sites,
   optimizeVideo : BOOLEAN, durationInSeconds : Durations,
   dataVolume : DataVolumes, userAmount : UserAmounts]

NoEnergy == [totalEnergyConsumptionWh |-> Zero, carbonGrams |-> Zero]
NoLocals ==
  [dataVolume |-> Zero, durationInSeconds |-> 0,
   serverEnergyConsumption |-> Zero, networkEnergyConsumption |-> Zero,
   dataTransferEnergyConsumption |-> Zero, energyOfUse |-> Zero,
   eTotalJoule |-> Zero]
NoCalculation ==
  [total |-> NoEnergy,
   comparisonValues |->
     [drivingKMPetrolCar |-> Zero, lightBulbDurationSeconds |-> Zero],
   serverEnergyConsumption |-> NoEnergy, networkEnergyConsumption |-> NoEnergy,
   dataTransferEnergyConsumption |-> NoEnergy, energyOfUse |-> NoEnergy]

Init ==
  /\ input \in Params
  /\ pc = "idle"
  /\ locals = NoLocals
  /\ result = NoCalculation

PageLoad ==
  /\ pc = "idle"
  /\ pc' = "load"
  /\ locals' = PageLoadLocals(input)
  /\ result' = calculatePageLoadImpact(input)
  /\ UNCHANGED input

PageUse ==
  /\ pc = "idle"
  /\ pc' = "use"
  /\ locals' = PageUseLocals(input)
  /\ result' = calculatePageUseImpact(input)
  /\ UNCHANGED input

Next == PageLoad \/ PageUse

Spec == Init /\ [][Next]_vars

\* -------------------------------------------------------------- the claims
Returned == pc # "idle"
Components ==
  {"serverEnergyConsumption", "networkEnergyConsumption",
   "dataTransferEnergyConsumption", "energyOfUse"}
Instances == Components \cup {"total"}

\* the four component joule values of the call, summed
ComponentJoules ==
  Add(Add(Add(locals.serverEnergyConsumption, locals.networkEnergyConsumption),
          locals.dataTransferEnergyConsumption),
      locals.energyOfUse)

\* a Calculation with every numeric leaf times k
ScaledLeaves(c, k) ==
  LET EC(e) == [totalEnergyConsumptionWh |-> MulQ(e.totalEnergyConsumptionWh, Q(k, 1)),
                carbonGrams |-> MulQ(e.carbonGrams, Q(k, 1))]
  IN  [total |-> EC(c.total),
       comparisonValues |->
         [drivingKMPetrolCar |->
            MulQ(c.comparisonValues.drivingKMPetrolCar, Q(k, 1)),
          lightBulbDurationSeconds |->
            MulQ(c.comparisonValues.lightBulbDurationSeconds, Q(k, 1))],
       serverEnergyConsumption |-> EC(c.serverEnergyConsumption),
       networkEnergyConsumption |-> EC(c.networkEnergyConsumption),
       dataTransferEnergyConsumption |-> EC(c.dataTransferEnergyConsumption),
       energyOfUse |-> EC(c.energyOfUse)]

\* C1 as stated: the returned total.totalEnergyConsumptionWh is the sum of the
\* four component joule values of the call, divided by 3600.
C1_TotalIsSumOver3600 ==
  Returned =>
    result.total.totalEnergyConsumptionWh = DivQ(ComponentJoules, Q(3600, 1))

\* C1 amended: the returned total.totalEnergyConsumptionWh is userAmount times
\* the sum of the four component joule values of the call, divided by 3600.
C1_TotalIsScaledSumOver3600 ==
  Returned =>
    result.total.totalEnergyConsumptionWh =
      MulQ(DivQ(ComponentJoules, Q(3600, 1)), Q(input.userAmount, 1))

C1_Witness ==
  /\ Returned
  /\ input.userAmount > 1
  /\ \A f \in Components : locals[f] # Zero

\* C2: in the returned Calculation every EnergyAndCarbon (total and the four
\* components) has carbonGrams = 0.11 * totalEnergyConsumptionWh.
C2_CarbonIsCoeffTimesWh ==
  Returned =>
    \A f \in Instances :
      result[f].carbonGrams = MulQ(result[f].totalEnergyConsumptionWh, Q(11, 100))

C2_Witness ==
  /\ pc = "use"
  /\ input.userAmount > 1
  /\ \A f \in Instances : result[f].carbonGrams # Zero

\* C3: the Calculation returned for userAmount = k is the one returned for
\* userAmount = 1 with every numeric leaf times k, for both entry points, and
\* scaling by 1 changes nothing.
C3_ScalingLaw ==
  LET one == [input EXCEPT !.userAmount = 1]
  IN  /\ pc = "load" =>
           result = ScaledLeaves(calculatePageLoadImpact(one), input.userAmount)
      /\ pc = "use" =>
           result = ScaledLeaves(calculatePageUseImpact(one), input.userAmount)
      /\ Returned => ScaledLeaves(result, 1) = result

C3_Witness ==
  /\ pc = "load"
  /\ input.userAmount > 1
  /\ result.comparisonValues.drivingKMPetrolCar # Zero

\* C4: calculatePageUseImpact with contentType Text uses a data volume of 0 and
\* returns a serverEnergyConsumption of 0 Wh and 0 g.
C4_TextUseHasNoVolumeNoServer ==
  (pc = "use" /\ input.contentType = "Text") =>
    /\ locals.dataVolume = Zero
    /\ locals.serverEnergyConsumption = Zero
    /\ result.serverEnergyConsumption.totalEnergyConsumptionWh = Zero
    /\ result.serverEnergyConsumption.carbonGrams = Zero

C4_Witness ==
  /\ pc = "use"
  /\ input.contentType = "Text"
  /\ input.durationInSeconds > 0
  /\ input.userAmount > 1
  /\ result.total.totalEnergyConsumptionWh # Zero

C5_Case ==
  /\ pc = "use"
  /\ input.deviceType = "Phone"
  /\ input.contentType = "Text"
  /\ input.durationInSeconds = 10
  /\ input.userAmount = 1

\* C5 as stated: for Phone, Text, 10 s, one user, the network energy and the
\* data-transfer energy are both 0 J (device energy 10 J, data volume 0,
\* server energy 0).
C5_NetworkAndTransferZero ==
  C5_Case =>
    /\ locals.energyOfUse = ToNum(Q(10, 1))
    /\ locals.dataVolume = Zero
    /\ locals.serverEnergyConsumption = Zero
    /\ locals.networkEnergyConsumption = Zero
    /\ locals.dataTransferEnergyConsumption = Zero

\* C5 amended: for Phone, Text, 10 s, one user, the network energy is 0 J and
\* the data-transfer energy is 30 J, the Wi-Fi share 0.3 of 10 J/s for 10 s
\* (device energy 10 J, data volume 0, server energy 0).
C5_NetworkZeroTransferWifi ==
  C5_Case =>
    /\ locals.energyOfUse = ToNum(Q(10, 1))
    /\ locals.dataVolume = Zero
    /\ locals.serverEnergyConsumption = Zero
    /\ locals.networkEnergyConsumption = Zero
    /\ locals.dataTransferEnergyConsumption = ToNum(Q(30, 1))

C5_Witness == C5_Case /\ result.dataTransferEnergyConsumption.carbonGrams # Zero

\* C6: for Video, the data volume, every component energy and the total Wh
\* with optimizeVideo = true are at most those with optimizeVideo = false, all
\* other parameters equal.
C6_OptimizedVideoNotMore ==
  (pc = "use" /\ input.contentType = "Video" /\ input.optimizeVideo) =>
    LET plain == [input EXCEPT !.optimizeVideo = FALSE]
        plainLocals == PageUseLocals(plain)
        plainResult == calculatePageUseImpact(plain)
    IN  /\ Le(locals.dataVolume, plainLocals.dataVolume)
        /\ \A f \in Components : Le(locals[f], plainLocals[f])
        /\ \A f \in Instances :
             Le(result[f].totalEnergyConsumptionWh,
                plainResult[f].totalEnergyConsumptionWh)

C6_Witness ==
  /\ pc = "use"
  /\ input.contentType = "Video"
  /\ input.optimizeVideo
  /\ input.site = "Yle"
  /\ input.durationInSeconds > 0
  /\ ~Le(calculatePageUseImpact([input EXCEPT !.optimizeVideo = FALSE])
           .total.totalEnergyConsumptionWh,
         result.total.totalEnergyConsumptionWh)

\* C7: for Video and Audio, the total Wh of calculatePageUseImpact for a
\* duration d1 is at most the one for a duration d2 >= d1, all other
\* parameters equal.
C7_MonotoneInDuration ==
  (pc = "use" /\ input.contentType \in {"Video", "Audio"}) =>
    \A d1 \in Durations :
      d1 <= input.durationInSeconds =>
        Le(calculatePageUseImpact([input EXCEPT !.durationInSeconds = d1])
             .total.totalEnergyConsumptionWh,
           result.total.totalEnergyConsumptionWh)

C7_Witness ==
  /\ pc = "use"
  /\ input.contentType = "Audio"
  /\ input.durationInSeconds = 10
  /\ ~Le(result.total.totalEnergyConsumptionWh,
         calculatePageUseImpact([input EXCEPT !.durationInSeconds = 0])
           .total.totalEnergyConsumptionWh)

\* the device powers as C8 states them, in watts
ClaimedDevicePower == [Phone |-> 1, Tablet |-> 3, PC |-> 115, Laptop |-> 32]

\* C8: the device energy before scaling is DEVICE_POWER[deviceType] * m *
\* duration, with m = 1.15 exactly for Video and the given duration in page
\* use, and m = 1 and 5 seconds in page load.
C8_DeviceEnergy ==
  /\ pc = "use" =>
       locals.energyOfUse =
         ToNum(Q(ClaimedDevicePower[input.deviceType]
                   * (IF input.contentType = "Video" THEN 115 ELSE 100)
                   * input.durationInSeconds,
                 100))
  /\ pc = "load" =>
       locals.energyOfUse = ToNum(Q(ClaimedDevicePower[input.deviceType] * 5, 1))

C8_Witness ==
  /\ pc = "use"
  /\ input.contentType = "Video"
  /\ input.deviceType = "PC"
  /\ input.durationInSeconds = 60

\* the shares as C9 states them, in tenths
ClaimedShareTenths ==
  [mobile   |-> [3G |-> 0, 4G |-> 4, 5G |-> 3, WIFI |-> 3],
   computer |-> [3G |-> 0, 4G |-> 3, 5G |-> 1, WIFI |-> 6]]

\* C9: in both entry points the data-transfer energy is the sum over 3G, 4G,
\* 5G and WIFI of share * cost, the class mobile for Phone and computer
\* otherwise, the cost of 3G, 4G, 5G its per-byte coefficient times the data
\* volume and the cost of WIFI 10 J/s times the duration, with the shares
\* stated, which sum to 1 in each class.
C9_ShareWeightedSum ==
  Returned =>
    LET class == IF input.deviceType = "Phone" THEN "mobile" ELSE "computer"
        t == ClaimedShareTenths[class]
        cost3G == MulQ(locals.dataVolume, E_ACC_NET_3G)
        cost4G == MulQ(locals.dataVolume, E_ACC_NET_4G)
        cost5G == MulQ(locals.dataVolume, E_ACC_NET_5G)
        costWIFI == ToNum(Q(10 * locals.durationInSeconds, 1))
    IN  /\ locals.dataTransferEnergyConsumption =
             Add(Add(Add(MulQ(cost3G, Q(t["3G"], 10)), MulQ(cost4G, Q(t["4G"], 10))),
                     MulQ(cost5G, Q(t["5G"], 10))),
                 MulQ(costWIFI, Q(t["WIFI"], 10)))
        /\ t["3G"] + t["4G"] + t["5G"] + t["WIFI"] = 10
        /\ \A m \in {"3G", "4G", "5G", "WIFI"} :
             DATA_SHARE_MAP[class][m] = Q(t[m], 10)

C9_Witness ==
  /\ pc = "use"
  /\ input.deviceType = "Tablet"
  /\ input.contentType = "Video"
  /\ input.durationInSeconds > 0

\* C10 as stated: in calculatePageUseImpact the server energy is 0 whenever
\* the computed data volume is 0, whatever the content type.
C10_NoVolumeNoServer ==
  (pc = "use" /\ locals.dataVolume = Zero) => locals.serverEnergyConsumption = Zero

\* C10 amended: in calculatePageUseImpact the server energy is 0 for Text and
\* 306 + 6.9e-6 * dataVolume joules for Video and Audio, which is 306 J when
\* the data volume is 0.
C10_ServerChargedForNonText ==
  pc = "use" =>
    /\ input.contentType = "Text" => locals.serverEnergyConsumption = Zero
    /\ input.contentType # "Text" =>
         locals.serverEnergyConsumption =
           Add(ToNum(Q(306, 1)), MulQ(locals.dataVolume, Q(69, 10000000)))
    /\ (input.contentType # "Text" /\ locals.dataVolume = Zero) =>
         locals.serverEnergyConsumption = ToNum(Q(306, 1))

C10_Witness ==
  /\ pc = "use"
  /\ input.contentType = "Video"
  /\ input.durationInSeconds = 0
  /\ locals.dataVolume = Zero
  /\ locals.serverEnergyConsumption # Zero

====
